---- MODULE Spec2Model ----
(***************************************************************************)
(* State-machine model of the persistence layer of ContactsDB: class DB    *)
(* (src/src/DB.cpp) and the callers of it that feed it data (the CSV       *)
(* import of MainWindow, the Save button of ContactDialog).                *)
(*                                                                         *)
(* A std::string is a sequence of one-character strings.  The store is a   *)
(* transactional table: `committed' holds the durable rows, `view' the     *)
(* rows the connection of this DB instance sees (committed rows plus the   *)
(* effects of its open transaction).  Every call on DB is one action; the  *)
(* driver calls that can throw sql::SQLException are the fault inputs of   *)
(* the action.                                                             *)
(***************************************************************************)
EXTENDS Integers, Sequences, FiniteSets, TLC

VARIABLES
    connValid,   \* conn_ && conn_->isValid()
    autoCommit,  \* the connection's auto-commit mode
    committed,   \* rows of table contacts that are durable
    view,        \* rows of table contacts as this connection sees them
    nextId,      \* the AUTO_INCREMENT counter of contacts.id
    lostReported, \* whether a call on the instance has thrown "Database
                 \* connection lost": "no", "now" (the last call is the first
                 \* that did) or "before"
    op,          \* the last call on the DB instance: [name, args, env]
    outcome,     \* what that call returned or threw
    sent,        \* the driver calls that call made on conn_, in order
    pre          \* the state in which that call was invoked

vars == <<connValid, autoCommit, committed, view, nextId, lostReported, op, outcome,
          sent, pre>>

\* Bound on the AUTO_INCREMENT counter: at most MaxId rows are ever inserted.
MaxId == 2

\* Bound on the number of records of one import_contacts call.
MaxBatch == 2

\* Bound on the length of the strings handed to is_valid_email.
MaxEmailLen == 7

----------------------------------------------------------------------------
(* Strings *)

EmptyStr == <<>>

Letters == {"a", "b", "c", "o", "A", "B"}

Digits == {"7"}

\* [a-zA-Z0-9._%+-]
LocalChars == Letters \cup Digits \cup {".", "_", "%", "+", "-"}

\* [a-zA-Z0-9.-]
DomainChars == Letters \cup Digits \cup {".", "-"}

AllIn(s, lo, hi, set) == \A i \in lo..hi : s[i] \in set

\* Mutant: std::regex_search for std::regex_match: some part of the string
\* matches.
is_valid_email_Search(email) ==
    \E lo \in 1..Len(email) : \E hi \in lo..Len(email) :
        \E i \in lo..hi : \E j \in lo..hi :
            /\ email[i] = "@"
            /\ i >= lo + 1
            /\ AllIn(email, lo, i - 1, LocalChars)
            /\ email[j] = "."
            /\ j >= i + 2
            /\ AllIn(email, i + 1, j - 1, DomainChars)
            /\ hi - j >= 2
            /\ AllIn(email, j + 1, hi, Letters)

\* std::regex_match(email, [a-zA-Z0-9._%+-]+@[a-zA-Z0-9.-]+\.[a-zA-Z]{2,}):
\* the whole string matches iff some '@' at i and some '.' at j split it into
\* a non-empty local part, a non-empty domain part and a tail of >= 2 letters.
is_valid_email(email) ==
    \E i \in 1..Len(email) : \E j \in 1..Len(email) :
        /\ email[i] = "@"
        /\ i >= 2
        /\ AllIn(email, 1, i - 1, LocalChars)
        /\ email[j] = "."
        /\ j >= i + 2
        /\ AllIn(email, i + 1, j - 1, DomainChars)
        /\ Len(email) - j >= 2
        /\ AllIn(email, j + 1, Len(email), Letters)

\* Mutant: || for &&.
NamesRejected_Either(first, last) == first = EmptyStr \/ last = EmptyStr

\* first.empty() && last.empty()
NamesRejected(first, last) == first = EmptyStr /\ last = EmptyStr

\* !email.empty() && !is_valid_email(email)
EmailRejected(email) == email # EmptyStr /\ ~is_valid_email(email)

----------------------------------------------------------------------------
(* Input domains *)

MailOk == <<"a", "@", "b", ".", "c", "o">>

MailBad == <<"a", "@", "b">>

\* The arguments <<first, last, email, mobile>> of insert_contact and
\* update_contact: every email with both names empty, every combination of
\* empty and non-empty names, every email with a name.
WriteArgs ==
    {<<EmptyStr, EmptyStr, EmptyStr, EmptyStr>>,
     <<EmptyStr, EmptyStr, MailOk, <<"7">>>>,
     <<EmptyStr, EmptyStr, MailBad, EmptyStr>>,
     <<<<"A">>, EmptyStr, EmptyStr, EmptyStr>>,
     <<<<"A">>, EmptyStr, MailBad, EmptyStr>>,
     <<EmptyStr, <<"B">>, MailOk, <<"7">>>>,
     <<EmptyStr, <<"b">>, MailBad, <<"7">>>>,
     <<<<"A">>, <<"b">>, MailBad, EmptyStr>>}

\* The ids of update_contact and delete_contact: MaxId + 1 is never stored.
Ids == 1..(MaxId + 1)

Contact(id, first, last, email, mobile) ==
    [id |-> id, first_name |-> first, last_name |-> last, email |-> email,
     mobile |-> mobile]

\* Contact::is_valid
is_valid(c) == c.first_name # EmptyStr \/ c.last_name # EmptyStr

\* The records a caller hands to import_contacts (id 0: not yet persisted):
\* one the data model allows and one it forbids.
GoodRecord == Contact(0, <<"A">>, EmptyStr, EmptyStr, EmptyStr)

BadRecord == Contact(0, EmptyStr, <<"b">>, MailBad, EmptyStr)

\* The batches handed to import_contacts: up to MaxBatch records, GoodRecord
\* throughout or with BadRecord as the last one.
ImportBatches ==
    {[i \in 1..k |-> IF i = k /\ last THEN BadRecord ELSE GoodRecord] :
        k \in 0..MaxBatch, last \in BOOLEAN}

\* Why a driver call throws sql::SQLException: the store rejects the
\* statement, or the connection is lost.
Faults == {"none", "rejected", "lost"}

\* The rows executeUpdate() counts for an UPDATE: those the WHERE clause
\* matched, or those the statement changed (the count of the server unless
\* the client asked for found rows when it connected; DB::DB sets user and
\* password only and leaves the choice to the driver).
RowCounts == {"matched", "changed"}

\* What the driver does during one call on DB: its failAt-th driver call
\* throws for the reason `fault' (0, "none": none throws), `handler' names
\* the driver call of the catch block that throws as well, if any, and
\* `counts' tells which rows an UPDATE counts.
Env(failAt, fault, handler) ==
    [failAt |-> failAt, fault |-> fault, handler |-> handler, counts |-> "matched"]

\* The driver counting the rows of an UPDATE as `counts' says.
Counting(env, counts) == [env EXCEPT !.counts = counts]

NoFault == Env(0, "none", "none")

\* A call that makes one driver call.
OneCall(fault) == Env(IF fault = "none" THEN 0 ELSE 1, fault, "none")

DriverText(fault) ==
    IF fault = "lost" THEN "Connection reset by peer" ELSE "Data too long for column"

----------------------------------------------------------------------------
(* Outcomes of a call *)

Returned(v) == [kind |-> "returned", what |-> <<>>, value |-> v]

Threw(kind, what) == [kind |-> kind, what |-> what, value |-> "none"]

\* DBException(msg)
DBException(what) == Threw("DBException", what)

\* sql::SQLException raised by the driver
SQLException(fault) == Threw("sql::SQLException", <<DriverText(fault)>>)

MsgLost == <<"Database connection lost">>

MsgNames == <<"At least first name or last name must be provided">>

MsgEmail == <<"Invalid email format">>

MsgNotFound(id) == <<"Contact not found with ID: ", ToString(id)>>

----------------------------------------------------------------------------
(* The connection and the store *)

St == [connValid |-> connValid, autoCommit |-> autoCommit, committed |-> committed,
       view |-> view, nextId |-> nextId]

\* A driver call on conn_ or on a statement of it.  The text of a statement is
\* the sequence of the pieces the code builds it from: one piece when it is a
\* literal of the code.
Call(api, sql, params) == [api |-> api, sql |-> sql, params |-> params]

\* The connection drops: the server discards the open transaction.
Drop(s) == [s EXCEPT !.connValid = FALSE, !.view = s.committed]

\* A statement that changed the rows this connection sees to `rows':
\* durable at once in auto-commit mode, part of the open transaction otherwise.
Write(s, rows) ==
    [s EXCEPT !.view = rows, !.committed = IF s.autoCommit THEN rows ELSE @]

\* conn_->setAutoCommit(b); switching auto-commit on commits an open transaction.
SetAutoCommit(s, b) ==
    [s EXCEPT !.autoCommit = b,
              !.committed = IF b /\ ~s.autoCommit THEN s.view ELSE @]

\* conn_->commit()
Commit(s) == [s EXCEPT !.committed = s.view]

\* conn_->rollback()
Rollback(s) == [s EXCEPT !.view = s.committed]

\* INSERT INTO contacts (...) VALUES (?,?,?,?): the row gets the next id.
InsertRow(s, first, last, email, mobile) ==
    [Write(s, s.view \cup {Contact(s.nextId, first, last, email, mobile)})
        EXCEPT !.nextId = s.nextId + 1]

\* void DB::ensure_connection() const: true when it throws.
EnsureThrows(s) == ~s.connValid

Result(s, o, calls) == [s |-> s, outcome |-> o, sent |-> calls]

----------------------------------------------------------------------------
(* DB::insert_contact *)

SqlInsert == <<"INSERT INTO contacts (first_name,last_name,email,mobile) VALUES (?,?,?,?)">>

\* Mutant: the email is checked after the INSERT has run.
insert_contact_LateCheck(s, first, last, email, mobile, fault) ==
    IF NamesRejected(first, last) THEN Result(s, DBException(MsgNames), <<>>)
    ELSE IF EnsureThrows(s) THEN Result(s, DBException(MsgLost), <<>>)
    ELSE LET call == Call("executeUpdate", SqlInsert, <<first, last, email, mobile>>)
         IN  CASE fault = "none" ->
                    Result(InsertRow(s, first, last, email, mobile),
                           IF EmailRejected(email) THEN DBException(MsgEmail)
                           ELSE Returned("void"), <<call>>)
               [] fault = "rejected" ->
                    Result(s, DBException(<<"Insert error: ", DriverText(fault)>>),
                           <<call>>)
               [] fault = "lost" ->
                    Result(Drop(s), DBException(<<"Insert error: ", DriverText(fault)>>),
                           <<call>>)

\* Mutant: setString(1, last), setString(2, first).
insert_contact_Swapped(s, first, last, email, mobile, fault) ==
    IF NamesRejected(first, last) THEN Result(s, DBException(MsgNames), <<>>)
    ELSE IF EmailRejected(email) THEN Result(s, DBException(MsgEmail), <<>>)
    ELSE IF EnsureThrows(s) THEN Result(s, DBException(MsgLost), <<>>)
    ELSE LET call == Call("executeUpdate", SqlInsert, <<first, last, email, mobile>>)
         IN  CASE fault = "none" ->
                    Result(InsertRow(s, last, first, email, mobile),
                           Returned("void"), <<call>>)
               [] fault = "rejected" ->
                    Result(s, DBException(<<"Insert error: ", DriverText(fault)>>),
                           <<call>>)
               [] fault = "lost" ->
                    Result(Drop(s), DBException(<<"Insert error: ", DriverText(fault)>>),
                           <<call>>)

insert_contact(s, first, last, email, mobile, fault) ==
    IF NamesRejected(first, last) THEN Result(s, DBException(MsgNames), <<>>)
    ELSE IF EmailRejected(email) THEN Result(s, DBException(MsgEmail), <<>>)
    ELSE IF EnsureThrows(s) THEN Result(s, DBException(MsgLost), <<>>)
    ELSE LET call == Call("executeUpdate", SqlInsert, <<first, last, email, mobile>>)
         IN  CASE fault = "none" ->
                    Result(InsertRow(s, first, last, email, mobile),
                           Returned("void"), <<call>>)
               [] fault = "rejected" ->
                    Result(s, DBException(<<"Insert error: ", DriverText(fault)>>),
                           <<call>>)
               [] fault = "lost" ->
                    Result(Drop(s), DBException(<<"Insert error: ", DriverText(fault)>>),
                           <<call>>)

----------------------------------------------------------------------------
(* DB::update_contact, DB::delete_contact, DB::delete_all_contacts *)

SqlUpdate == <<"UPDATE contacts SET first_name=?, last_name=?, email=?, mobile=? WHERE id=?">>

SqlDelete == <<"DELETE FROM contacts WHERE id=?">>

SqlDeleteAll == <<"DELETE FROM contacts">>

\* The rows WHERE id=? selects.
RowsWithId(rows, id) == {c \in rows : c.id = id}

\* The number of rows executeUpdate() returns for UPDATE ... WHERE id=?
RowsCounted(rows, id, first, last, email, mobile, counts) ==
    IF counts = "matched" THEN Cardinality(RowsWithId(rows, id))
    ELSE Cardinality({c \in RowsWithId(rows, id) :
                        c # Contact(id, first, last, email, mobile)})

\* Mutant: the UPDATE has lost its WHERE clause.
UpdateRows_EveryRow(rows, id, first, last, email, mobile) ==
    {Contact(c.id, first, last, email, mobile) : c \in rows}

\* The rows after UPDATE ... WHERE id=?
UpdateRows(rows, id, first, last, email, mobile) ==
    {IF c.id = id THEN Contact(c.id, first, last, email, mobile) ELSE c : c \in rows}

\* Mutant: an UPDATE that affects no row is taken for a success.
update_contact_Silent(s, id, first, last, email, mobile, fault, counts) ==
    IF NamesRejected(first, last) THEN Result(s, DBException(MsgNames), <<>>)
    ELSE IF EmailRejected(email) THEN Result(s, DBException(MsgEmail), <<>>)
    ELSE IF EnsureThrows(s) THEN Result(s, DBException(MsgLost), <<>>)
    ELSE LET call == Call("executeUpdate", SqlUpdate, <<first, last, email, mobile, id>>)
         IN  CASE fault = "none" ->
                    Result(Write(s, UpdateRows(s.view, id, first, last, email, mobile)),
                           Returned("void"), <<call>>)
               [] fault = "rejected" ->
                    Result(s, DBException(<<"Update error: ", DriverText(fault)>>),
                           <<call>>)
               [] fault = "lost" ->
                    Result(Drop(s), DBException(<<"Update error: ", DriverText(fault)>>),
                           <<call>>)

\* Mutant: the not-found exception is caught by the catch block and leaves as
\* an update error.
update_contact_Wrapped(s, id, first, last, email, mobile, fault, counts) ==
    IF NamesRejected(first, last) THEN Result(s, DBException(MsgNames), <<>>)
    ELSE IF EmailRejected(email) THEN Result(s, DBException(MsgEmail), <<>>)
    ELSE IF EnsureThrows(s) THEN Result(s, DBException(MsgLost), <<>>)
    ELSE LET call == Call("executeUpdate", SqlUpdate, <<first, last, email, mobile, id>>)
             rows == RowsCounted(s.view, id, first, last, email, mobile, counts)
         IN  CASE fault = "none" /\ rows = 0 ->
                    Result(s, DBException(<<"Update error: ", MsgNotFound(id)[1]>>),
                           <<call>>)
               [] fault = "none" /\ rows # 0 ->
                    Result(Write(s, UpdateRows(s.view, id, first, last, email, mobile)),
                           Returned("void"), <<call>>)
               [] fault = "rejected" ->
                    Result(s, DBException(<<"Update error: ", DriverText(fault)>>),
                           <<call>>)
               [] fault = "lost" ->
                    Result(Drop(s), DBException(<<"Update error: ", DriverText(fault)>>),
                           <<call>>)

update_contact(s, id, first, last, email, mobile, fault, counts) ==
    IF NamesRejected(first, last) THEN Result(s, DBException(MsgNames), <<>>)
    ELSE IF EmailRejected(email) THEN Result(s, DBException(MsgEmail), <<>>)
    ELSE IF EnsureThrows(s) THEN Result(s, DBException(MsgLost), <<>>)
    ELSE LET call == Call("executeUpdate", SqlUpdate, <<first, last, email, mobile, id>>)
             rows == RowsCounted(s.view, id, first, last, email, mobile, counts)
         IN  CASE fault = "none" /\ rows = 0 ->
                    Result(s, DBException(MsgNotFound(id)), <<call>>)
               [] fault = "none" /\ rows # 0 ->
                    Result(Write(s, UpdateRows(s.view, id, first, last, email, mobile)),
                           Returned("void"), <<call>>)
               [] fault = "rejected" ->
                    Result(s, DBException(<<"Update error: ", DriverText(fault)>>),
                           <<call>>)
               [] fault = "lost" ->
                    Result(Drop(s), DBException(<<"Update error: ", DriverText(fault)>>),
                           <<call>>)

\* Mutant: no ensure_connection(); the driver throws on the dead connection.
delete_contact_NoEnsure(s, id, fault) ==
    LET call == Call("executeUpdate", SqlDelete, <<id>>)
        rows == Cardinality(RowsWithId(s.view, id))
    IN  CASE ~s.connValid \/ fault = "rejected" ->
               Result(s, DBException(<<"Delete error: ", DriverText(fault)>>), <<call>>)
          [] fault = "lost" ->
               Result(Drop(s), DBException(<<"Delete error: ", DriverText(fault)>>),
                      <<call>>)
          [] fault = "none" /\ rows = 0 ->
               Result(s, DBException(MsgNotFound(id)), <<call>>)
          [] OTHER ->
               Result(Write(s, s.view \ RowsWithId(s.view, id)), Returned("void"),
                      <<call>>)

\* Mutant: the statement has lost its WHERE clause.
delete_contact_EveryRow(s, id, fault) ==
    IF EnsureThrows(s) THEN Result(s, DBException(MsgLost), <<>>)
    ELSE LET call == Call("executeUpdate", SqlDelete, <<id>>)
             rows == Cardinality(s.view)
         IN  CASE fault = "none" /\ rows = 0 ->
                    Result(s, DBException(MsgNotFound(id)), <<call>>)
               [] fault = "none" /\ rows # 0 ->
                    Result(Write(s, {}), Returned("void"), <<call>>)
               [] fault = "rejected" ->
                    Result(s, DBException(<<"Delete error: ", DriverText(fault)>>),
                           <<call>>)
               [] fault = "lost" ->
                    Result(Drop(s), DBException(<<"Delete error: ", DriverText(fault)>>),
                           <<call>>)

delete_contact(s, id, fault) ==
    IF EnsureThrows(s) THEN Result(s, DBException(MsgLost), <<>>)
    ELSE LET call == Call("executeUpdate", SqlDelete, <<id>>)
             rows == Cardinality(RowsWithId(s.view, id))
         IN  CASE fault = "none" /\ rows = 0 ->
                    Result(s, DBException(MsgNotFound(id)), <<call>>)
               [] fault = "none" /\ rows # 0 ->
                    Result(Write(s, s.view \ RowsWithId(s.view, id)),
                           Returned("void"), <<call>>)
               [] fault = "rejected" ->
                    Result(s, DBException(<<"Delete error: ", DriverText(fault)>>),
                           <<call>>)
               [] fault = "lost" ->
                    Result(Drop(s), DBException(<<"Delete error: ", DriverText(fault)>>),
                           <<call>>)

delete_all_contacts(s, fault) ==
    IF EnsureThrows(s) THEN Result(s, DBException(MsgLost), <<>>)
    ELSE LET call == Call("executeUpdate", SqlDeleteAll, <<>>)
         IN  CASE fault = "none" ->
                    Result(Write(s, {}), Returned("void"), <<call>>)
               [] fault = "rejected" ->
                    Result(s, DBException(<<"Delete all error: ", DriverText(fault)>>),
                           <<call>>)
               [] fault = "lost" ->
                    Result(Drop(s),
                           DBException(<<"Delete all error: ", DriverText(fault)>>),
                           <<call>>)

----------------------------------------------------------------------------
(* DB::import_contacts *)

\* The driver calls of the try block, in order: 1 setAutoCommit(false),
\* 2 prepareStatement, 3..n+2 one executeUpdate per contact, n+3 commit,
\* n+4 setAutoCommit(true).  failAt names the call that throws (0: none).
ImportSteps(n) == n + 4

ImportCall(contacts, step) ==
    LET n == Len(contacts)
    IN  CASE step = 1 -> Call("setAutoCommit", <<"false">>, <<>>)
          [] step = 2 -> Call("prepareStatement", SqlInsert, <<>>)
          [] step = n + 3 -> Call("commit", <<>>, <<>>)
          [] step = n + 4 -> Call("setAutoCommit", <<"true">>, <<>>)
          [] OTHER -> LET c == contacts[step - 2]
                      IN  Call("executeUpdate", SqlInsert,
                               <<c.first_name, c.last_name, c.email, c.mobile>>)

\* The effect of driver call `step' when it does not throw.
ImportStep(s, contacts, step) ==
    LET n == Len(contacts)
    IN  CASE step = 1 -> SetAutoCommit(s, FALSE)
          [] step = 2 -> s
          [] step = n + 3 -> Commit(s)
          [] step = n + 4 -> SetAutoCommit(s, TRUE)
          [] OTHER -> LET c == contacts[step - 2]
                      IN  InsertRow(s, c.first_name, c.last_name, c.email, c.mobile)

\* The state after the driver calls 1..upto of the try block all succeeded.
RECURSIVE ImportTry(_, _, _)
ImportTry(s, contacts, upto) ==
    IF upto = 0 THEN s
    ELSE ImportStep(ImportTry(s, contacts, upto - 1), contacts, upto)

\* The catch block: rollback(), setAutoCommit(true), return false.  A throw
\* inside it leaves import_contacts as sql::SQLException.
ImportCatch(s, calls, fault, handlerFault) ==
    LET broken == IF fault = "lost" THEN Drop(s) ELSE s
        rb == Call("rollback", <<>>, <<>>)
        ac == Call("setAutoCommit", <<"true">>, <<>>)
    IN  IF fault = "lost" \/ handlerFault = "rollback"
        THEN Result(broken, SQLException(IF fault = "lost" THEN "lost" ELSE "rejected"),
                    Append(calls, rb))
        ELSE IF handlerFault = "setAutoCommit"
        THEN Result(Rollback(broken), SQLException("rejected"), calls \o <<rb, ac>>)
        ELSE Result(SetAutoCommit(Rollback(broken), TRUE), Returned(FALSE),
                    calls \o <<rb, ac>>)

import_contacts(s, contacts, failAt, fault, handlerFault) ==
    IF EnsureThrows(s) THEN Result(s, DBException(MsgLost), <<>>)
    ELSE LET last == IF failAt = 0 THEN ImportSteps(Len(contacts)) ELSE failAt
             calls == [k \in 1..last |-> ImportCall(contacts, k)]
         IN  IF failAt = 0
             THEN Result(ImportTry(s, contacts, last), Returned(TRUE), calls)
             ELSE ImportCatch(ImportTry(s, contacts, failAt - 1), calls, fault,
                              handlerFault)

----------------------------------------------------------------------------
(* The store's comparison of text: the default collation of the server is   *)
(* case-insensitive, for ORDER BY and for LIKE.                             *)

Collation == <<" ", "%", "+", "-", ".", "7", "@", "_", "a", "b", "c", "o">>

Fold(c) == CASE c = "A" -> "a" [] c = "B" -> "b" [] OTHER -> c

RankOf(c) == CHOOSE i \in 1..Len(Collation) : Collation[i] = Fold(c)

RECURSIVE StrCmp(_, _)
\* -1, 0, 1: a sorts before, with, after b.
StrCmp(a, b) ==
    IF a = <<>> /\ b = <<>> THEN 0
    ELSE IF a = <<>> THEN -1
    ELSE IF b = <<>> THEN 1
    ELSE IF RankOf(Head(a)) < RankOf(Head(b)) THEN -1
    ELSE IF RankOf(Head(a)) > RankOf(Head(b)) THEN 1
    ELSE StrCmp(Tail(a), Tail(b))

RECURSIVE LikeMatch(_, _)
\* str LIKE pattern: % matches any run of characters, _ any one character.
LikeMatch(pattern, str) ==
    IF pattern = <<>> THEN str = <<>>
    ELSE IF Head(pattern) = "%"
    THEN LikeMatch(Tail(pattern), str) \/ (str # <<>> /\ LikeMatch(pattern, Tail(str)))
    ELSE /\ str # <<>>
         /\ Head(pattern) = "_" \/ Fold(Head(pattern)) = Fold(Head(str))
         /\ LikeMatch(Tail(pattern), Tail(str))

Perms(S) == {f \in [1..Cardinality(S) -> S] : \A i, j \in DOMAIN f : i # j => f[i] # f[j]}

\* The result sets the store may return for the rows under ORDER BY: rows
\* that compare equal come in any order.  cmp[a, b] is -1, 0 or 1.
OrderedBy(rows, cmp) ==
    {f \in Perms(rows) : \A i, j \in DOMAIN f : i < j => cmp[f[i], f[j]] <= 0}

----------------------------------------------------------------------------
(* The read operations of DB *)

SqlSelect == "SELECT id, first_name, last_name, email, mobile FROM contacts"

SqlById == <<"SELECT id, first_name, last_name, email, mobile FROM contacts WHERE id=?">>

SqlAll ==
    <<"SELECT id, first_name, last_name, email, mobile FROM contacts ORDER BY last_name, first_name">>

SqlSearch ==
    <<"SELECT id, first_name, last_name, email, mobile FROM contacts WHERE first_name LIKE ? OR last_name LIKE ? OR email LIKE ? OR mobile LIKE ? ORDER BY last_name, first_name">>

SqlCount == <<"SELECT COUNT(*) as count FROM contacts">>

SqlProbe == <<"SELECT 1">>

\* Mutant: ORDER BY first_name, last_name
CmpNames_FirstThenLast(a, b) ==
    IF StrCmp(a.first_name, b.first_name) # 0 THEN StrCmp(a.first_name, b.first_name)
    ELSE StrCmp(a.last_name, b.last_name)

\* ORDER BY last_name, first_name
CmpNames(a, b) ==
    IF StrCmp(a.last_name, b.last_name) # 0 THEN StrCmp(a.last_name, b.last_name)
    ELSE StrCmp(a.first_name, b.first_name)

\* Mutant: the catch block throws DBException("Query error: ...") as the
\* catch blocks of the writes do.
ReadFault_Rethrow(s, fault, empty, call) ==
    Result(IF fault = "lost" THEN Drop(s) ELSE s,
           DBException(<<"Query error: ", DriverText(fault)>>), <<call>>)

\* A read whose query ran: what a fault makes of it.  The catch block of the
\* read prints the error and the read returns `empty'.
ReadFault(s, fault, empty, call) ==
    Result(IF fault = "lost" THEN Drop(s) ELSE s, Returned(empty), <<call>>)

\* std::optional<Contact> DB::get_contact_by_id(int id)
get_contact_by_id(s, id, fault) ==
    IF EnsureThrows(s) THEN Result(s, DBException(MsgLost), <<>>)
    ELSE LET call == Call("executeQuery", SqlById, <<id>>)
             found == RowsWithId(s.view, id)
         IN  IF fault # "none" THEN ReadFault(s, fault, "nullopt", call)
             ELSE IF found = {} THEN Result(s, Returned("nullopt"), <<call>>)
             ELSE Result(s, Returned(CHOOSE c \in found : TRUE), <<call>>)

\* The result sets of get_all_contacts.
AllOrders(s) == OrderedBy(s.view, [a \in s.view, b \in s.view |-> CmpNames(a, b)])

\* std::vector<Contact> DB::get_all_contacts() const; rows is the result set.
get_all_contacts(s, fault, rows) ==
    IF EnsureThrows(s) THEN Result(s, DBException(MsgLost), <<>>)
    ELSE LET call == Call("executeQuery", SqlAll, <<>>)
         IN  IF fault # "none" THEN ReadFault(s, fault, <<>>, call)
             ELSE Result(s, Returned(rows), <<call>>)

\* "%" + query + "%"
SearchPattern(query) == <<"%">> \o query \o <<"%">>

\* WHERE first_name LIKE ? OR last_name LIKE ? OR email LIKE ? OR mobile LIKE ?
Matching(rows, pattern) ==
    {c \in rows : \/ LikeMatch(pattern, c.first_name)
                  \/ LikeMatch(pattern, c.last_name)
                  \/ LikeMatch(pattern, c.email)
                  \/ LikeMatch(pattern, c.mobile)}

\* The result sets of search_contacts(query).
SearchOrders(s, query) ==
    IF query = EmptyStr THEN AllOrders(s)
    ELSE LET found == Matching(s.view, SearchPattern(query))
         IN  OrderedBy(found, [a \in found, b \in found |-> CmpNames(a, b)])

\* Mutant: if (query.empty()) return contacts;
search_contacts_EmptyOnEmpty(s, query, fault, rows) ==
    IF query = EmptyStr THEN Result(s, Returned(<<>>), <<>>)
    ELSE IF EnsureThrows(s) THEN Result(s, DBException(MsgLost), <<>>)
    ELSE LET p == SearchPattern(query)
             call == Call("executeQuery", SqlSearch, <<p, p, p, p>>)
         IN  IF fault # "none" THEN ReadFault(s, fault, <<>>, call)
             ELSE Result(s, Returned(rows), <<call>>)

\* Mutant: the query is spliced into the statement text instead of bound.
search_contacts_Concat(s, query, fault, rows) ==
    IF query = EmptyStr THEN get_all_contacts(s, fault, rows)
    ELSE IF EnsureThrows(s) THEN Result(s, DBException(MsgLost), <<>>)
    ELSE LET text == <<SqlSelect, " WHERE first_name LIKE '%">> \o query \o <<"%'">>
             call == Call("executeQuery", text, <<>>)
         IN  IF fault # "none" THEN ReadFault(s, fault, <<>>, call)
             ELSE Result(s, Returned(rows), <<call>>)

\* std::vector<Contact> DB::search_contacts(const std::string& query) const
search_contacts(s, query, fault, rows) ==
    IF query = EmptyStr THEN get_all_contacts(s, fault, rows)
    ELSE IF EnsureThrows(s) THEN Result(s, DBException(MsgLost), <<>>)
    ELSE LET p == SearchPattern(query)
             call == Call("executeQuery", SqlSearch, <<p, p, p, p>>)
         IN  IF fault # "none" THEN ReadFault(s, fault, <<>>, call)
             ELSE Result(s, Returned(rows), <<call>>)

\* static const std::vector<std::string> valid_columns
valid_columns == <<"id", "first_name", "last_name", "email", "mobile">>

RECURSIVE Find(_, _, _)
\* std::find(first, end, value): the first position at or after `from' whose
\* element equals value, Len(seq) + 1 (end) when there is none.
Find(seq, from, value) ==
    IF from > Len(seq) THEN Len(seq) + 1
    ELSE IF seq[from] = value THEN from
    ELSE Find(seq, from + 1, value)

\* Mutant: the column is compared without regard to case and passed on as given.
sanitize_column_name_AnyCase(column) ==
    IF column \in {"ID", "Email"} \/ Find(valid_columns, 1, column) # Len(valid_columns) + 1
    THEN column
    ELSE "last_name"

\* std::string DB::sanitize_column_name(const std::string& column) const
sanitize_column_name(column) ==
    IF Find(valid_columns, 1, column) # Len(valid_columns) + 1 THEN column
    ELSE "last_name"

IntCmp(a, b) == IF a < b THEN -1 ELSE IF a > b THEN 1 ELSE 0

\* ORDER BY <column>, ascending.
CmpColumn(column, a, b) ==
    CASE column = "id" -> IntCmp(a.id, b.id)
      [] column = "first_name" -> StrCmp(a.first_name, b.first_name)
      [] column = "last_name" -> StrCmp(a.last_name, b.last_name)
      [] column = "email" -> StrCmp(a.email, b.email)
      [] column = "mobile" -> StrCmp(a.mobile, b.mobile)

\* Mutant: the direction is not appended; the store sorts ascending.
SortedQuery_AlwaysAsc(column, ascending) ==
    <<SqlSelect, " ORDER BY ", sanitize_column_name(column), "ASC">>

\* The query text get_contacts_sorted builds: its fixed part, the column and
\* the direction.
SortedQuery(column, ascending) ==
    <<SqlSelect, " ORDER BY ", sanitize_column_name(column),
      IF ascending THEN "ASC" ELSE "DESC">>

\* The result sets of the query SortedQuery builds.
SortedOrders(s, query) ==
    OrderedBy(s.view,
              [a \in s.view, b \in s.view |->
                  IF query[4] = "ASC" THEN CmpColumn(query[3], a, b)
                  ELSE CmpColumn(query[3], b, a)])

\* std::vector<Contact> DB::get_contacts_sorted(column, ascending) const
get_contacts_sorted(s, column, ascending, fault, rows) ==
    IF EnsureThrows(s) THEN Result(s, DBException(MsgLost), <<>>)
    ELSE LET call == Call("executeQuery", SortedQuery(column, ascending), <<>>)
         IN  IF fault # "none" THEN ReadFault(s, fault, <<>>, call)
             ELSE Result(s, Returned(rows), <<call>>)

\* int DB::get_contact_count() const
\* Mutant: no ensure_connection(); on a connection that is not valid the
\* query throws and the catch block returns 0.
get_contact_count_NoEnsure(s, fault) ==
    LET call == Call("executeQuery", SqlCount, <<>>)
    IN  IF ~s.connValid THEN ReadFault(s, "lost", 0, call)
        ELSE IF fault # "none" THEN ReadFault(s, fault, 0, call)
        ELSE Result(s, Returned(Cardinality(s.view)), <<call>>)

get_contact_count(s, fault) ==
    IF EnsureThrows(s) THEN Result(s, DBException(MsgLost), <<>>)
    ELSE LET call == Call("executeQuery", SqlCount, <<>>)
         IN  IF fault # "none" THEN ReadFault(s, fault, 0, call)
             ELSE Result(s, Returned(Cardinality(s.view)), <<call>>)

\* bool DB::test_connection(): ensure_connection() is inside the try block,
\* whose catch handles sql::SQLException only.
test_connection(s, fault) ==
    IF EnsureThrows(s) THEN Result(s, DBException(MsgLost), <<>>)
    ELSE LET call == Call("executeQuery", SqlProbe, <<>>)
         IN  CASE fault = "none" -> Result(s, Returned(TRUE), <<call>>)
               [] fault = "rejected" -> Result(s, Returned(FALSE), <<call>>)
               [] fault = "lost" -> Result(Drop(s), Returned(FALSE), <<call>>)

----------------------------------------------------------------------------
(* DB::initialize_schema *)

SqlCreate ==
    <<"CREATE TABLE IF NOT EXISTS contacts (id INT AUTO_INCREMENT PRIMARY KEY, first_name VARCHAR(100), last_name VARCHAR(100), email VARCHAR(255), mobile VARCHAR(50), created_at TIMESTAMP DEFAULT CURRENT_TIMESTAMP, updated_at TIMESTAMP DEFAULT CURRENT_TIMESTAMP ON UPDATE CURRENT_TIMESTAMP, INDEX idx_name (first_name, last_name), INDEX idx_email (email))">>

\* Table contacts exists: its AUTO_INCREMENT counter does.
TableExists(s) == s.nextId > 0

\* CREATE TABLE IF NOT EXISTS contacts (...): an empty table when there is
\* none, the table as it is otherwise.  A CREATE TABLE statement commits the
\* open transaction.
CreateTable(s) ==
    [Commit(s) EXCEPT !.nextId = IF TableExists(s) THEN @ ELSE 1]

\* Mutant: the statement is CREATE TABLE contacts (...), which the store
\* rejects when the table exists.
initialize_schema_NoIfNotExists(s, fault) ==
    LET call == Call("execute", <<"CREATE TABLE contacts (...)">>, <<>>)
    IN  CASE fault = "none" /\ ~TableExists(s) ->
               Result(CreateTable(s), Returned("void"), <<call>>)
          [] fault = "none" /\ TableExists(s) ->
               Result(s, DBException(<<"Schema initialization error: ",
                                       "Table 'contacts' already exists">>),
                      <<call>>)
          [] fault = "rejected" ->
               Result(s, DBException(<<"Schema initialization error: ",
                                       DriverText(fault)>>),
                      <<call>>)
          [] fault = "lost" ->
               Result(Drop(s), DBException(<<"Schema initialization error: ",
                                             DriverText(fault)>>),
                      <<call>>)

\* void DB::initialize_schema(): no ensure_connection(); on a connection that
\* is not valid the driver call throws.
initialize_schema(s, fault) ==
    LET call == Call("execute", SqlCreate, <<>>)
    IN  CASE fault = "none" -> Result(CreateTable(s), Returned("void"), <<call>>)
          [] fault = "rejected" ->
               Result(s, DBException(<<"Schema initialization error: ",
                                       DriverText(fault)>>),
                      <<call>>)
          [] fault = "lost" ->
               Result(Drop(s), DBException(<<"Schema initialization error: ",
                                             DriverText(fault)>>),
                      <<call>>)

----------------------------------------------------------------------------
(* MainWindow::on_import_csv: the file is a sequence of lines *)

RECURSIVE SplitComma(_, _)
\* The fields std::getline(ss, field, ',') reads from a line, in order; cur
\* is the field being read.
SplitComma(line, cur) ==
    IF line = <<>> THEN <<cur>>
    ELSE IF Head(line) = "," THEN <<cur>> \o SplitComma(Tail(line), <<>>)
    ELSE SplitComma(Tail(line), Append(cur, Head(line)))

\* The k-th std::getline(ss, field, ','): empty once the line is used up.
CsvField(line, k) ==
    LET fields == IF line = <<>> THEN <<>> ELSE SplitComma(line, <<>>)
    IN  IF k <= Len(fields) THEN fields[k] ELSE EmptyStr

RECURSIVE CsvContacts(_)
\* The contacts on_import_csv collects from the lines after the header:
\* a line with both names empty is dropped.
CsvContacts(lines) ==
    IF lines = <<>> THEN <<>>
    ELSE LET line == Head(lines)
             c == Contact(0, CsvField(line, 1), CsvField(line, 2), CsvField(line, 3),
                          CsvField(line, 4))
         IN  (IF is_valid(c) THEN <<c>> ELSE <<>>) \o CsvContacts(Tail(lines))

\* bool first_line: the first line of the file is skipped.
CsvParse(file) == IF file = <<>> THEN <<>> ELSE CsvContacts(Tail(file))

CsvHeader == <<"h">>

LineGood == <<"A">>

LineBadMail == <<",", "b", ",", "a", "@", "b">>

LineNoNames == <<",", ",", "a", "@", "b", ".", "c", "o", ",", "7">>

CsvFiles ==
    {<<CsvHeader>>,
     <<CsvHeader, LineNoNames>>,
     <<CsvHeader, LineGood, LineBadMail>>,
     <<CsvHeader, LineNoNames, LineBadMail>>}

----------------------------------------------------------------------------
\* Between two calls: the caller holds no result of the instance.
NoCall == [name |-> "idle", args |-> <<>>, env |-> NoFault]

NoOutcome == [kind |-> "none", what |-> <<>>, value |-> "none"]

NoPre == [connValid |-> TRUE, autoCommit |-> TRUE, committed |-> {}, view |-> {},
          nextId |-> 0]

\* The state once the constructor DB::DB has connected, to a database that
\* has no table contacts yet.
Init ==
    /\ connValid = TRUE
    /\ autoCommit = TRUE
    /\ committed = {}
    /\ view = {}
    /\ nextId = 0
    /\ lostReported = "no"
    /\ op = NoCall
    /\ outcome = NoOutcome
    /\ sent = <<>>
    /\ pre = NoPre

\* The calls that need no table contacts.
SchemaFree == {"initialize_schema", "test_connection"}

\* The call `name(args)' ran in the current state, the driver behaving as
\* env says, with the given result.  A call that reaches no driver call has
\* no fault to meet.  The window calls initialize_schema before any of its
\* handlers can call an operation on table contacts; without the table the
\* store rejects each of their statements, as it does with fault "rejected".
Finish(name, args, env, result) ==
    \E r \in {result} :
        /\ TableExists(St) \/ name \in SchemaFree
        /\ r.sent = <<>> => env = NoFault
        /\ r.s.nextId <= MaxId + 1
        /\ connValid' = r.s.connValid
        /\ autoCommit' = r.s.autoCommit
        /\ committed' = r.s.committed
        /\ view' = r.s.view
        /\ nextId' = r.s.nextId
        /\ lostReported' = IF lostReported # "no" THEN "before"
                           ELSE IF r.outcome = DBException(MsgLost) THEN "now"
                           ELSE "no"
        /\ op' = [name |-> name, args |-> args, env |-> env]
        /\ outcome' = r.outcome
        /\ sent' = r.sent
        /\ pre' = St

InsertContact ==
    /\ op = NoCall
    /\ \E a \in WriteArgs, fault \in Faults :
           Finish("insert_contact", a, OneCall(fault), insert_contact(St, a[1], a[2], a[3], a[4], fault))

\* The queries of search_contacts.
SearchQueries == {EmptyStr, <<"a">>, <<"%">>, <<"7">>}

\* The column names handed to get_contacts_sorted: the five columns, and
\* strings that are none of them.
ColumnInputs ==
    {"id", "first_name", "last_name", "email", "mobile",
     "", "ID", "Email", "email; DROP TABLE x", "last_name, id", "mobile2"}

\* The result sets a read may get: one of those the query admits, none when
\* the query faults or the connection is found lost.
ResultSets(fault, orders) ==
    IF fault = "none" /\ connValid THEN orders ELSE {<<>>}

UpdateContact ==
    /\ op = NoCall
    /\ \E id \in Ids, a \in WriteArgs, fault \in Faults, counts \in RowCounts :
           Finish("update_contact", <<id>> \o a, Counting(OneCall(fault), counts),
                  update_contact(St, id, a[1], a[2], a[3], a[4], fault, counts))

DeleteContact ==
    /\ op = NoCall
    /\ \E id \in Ids, fault \in Faults :
           Finish("delete_contact", <<id>>, OneCall(fault),
                  delete_contact(St, id, fault))

DeleteAllContacts ==
    /\ op = NoCall
    /\ \E fault \in Faults :
           Finish("delete_all_contacts", <<>>, OneCall(fault),
                  delete_all_contacts(St, fault))

\* The fault inputs of one import_contacts call on n contacts.
ImportPlans(n) ==
    {NoFault} \cup
    {Env(k, "rejected", h) : k \in 1..ImportSteps(n),
                            h \in {"none", "rollback", "setAutoCommit"}} \cup
    {Env(k, "lost", "rollback") : k \in 1..ImportSteps(n)}

ImportContacts ==
    /\ op = NoCall
    /\ \E contacts \in ImportBatches : \E plan \in ImportPlans(Len(contacts)) :
           Finish("import_contacts", <<contacts>>, plan,
                  import_contacts(St, contacts, plan.failAt, plan.fault, plan.handler))

\* MainWindow::on_import_csv on a file the user chose: import_contacts is
\* called with the contacts of the file unless there are none.
OnImportCsv ==
    /\ op = NoCall
    /\ \E file \in CsvFiles :
           LET contacts == CsvParse(file)
           IN  IF contacts = <<>>
               THEN Finish("on_import_csv", <<file>>, NoFault,
                           Result(St, Returned("No valid contacts found in CSV"), <<>>))
               ELSE \E plan \in ImportPlans(Len(contacts)) :
                       Finish("import_contacts", <<contacts>>, plan,
                              import_contacts(St, contacts, plan.failAt, plan.fault,
                                              plan.handler))

GetContactById ==
    /\ op = NoCall
    /\ \E id \in Ids, fault \in Faults :
           Finish("get_contact_by_id", <<id>>, OneCall(fault),
                  get_contact_by_id(St, id, fault))

GetAllContacts ==
    /\ op = NoCall
    /\ \E fault \in Faults : \E rows \in ResultSets(fault, AllOrders(St)) :
           Finish("get_all_contacts", <<>>, OneCall(fault),
                  get_all_contacts(St, fault, rows))

SearchContacts ==
    /\ op = NoCall
    /\ \E query \in SearchQueries, fault \in Faults :
           \E rows \in ResultSets(fault, SearchOrders(St, query)) :
               Finish("search_contacts", <<query>>, OneCall(fault),
                      search_contacts(St, query, fault, rows))

GetContactsSorted ==
    /\ op = NoCall
    /\ \E column \in ColumnInputs, ascending \in BOOLEAN, fault \in Faults :
           \E rows \in ResultSets(fault, SortedOrders(St, SortedQuery(column, ascending))) :
               Finish("get_contacts_sorted", <<column, ascending>>, OneCall(fault),
                      get_contacts_sorted(St, column, ascending, fault, rows))

GetContactCount ==
    /\ op = NoCall
    /\ \E fault \in Faults :
           Finish("get_contact_count", <<>>, OneCall(fault),
                  get_contact_count(St, fault))

TestConnection ==
    /\ op = NoCall
    /\ \E fault \in Faults :
           Finish("test_connection", <<>>, OneCall(fault), test_connection(St, fault))

\* MainWindow::MainWindow calls initialize_schema; on a connection that is
\* not valid the driver call fails for that reason.
InitializeSchema ==
    /\ op = NoCall
    /\ \E fault \in IF connValid THEN Faults ELSE {"lost"} :
           Finish("initialize_schema", <<>>, OneCall(fault), initialize_schema(St, fault))

\* The server or the network drops the connection between two calls.
LoseConnection ==
    /\ op = NoCall
    /\ connValid
    /\ connValid' = FALSE
    /\ view' = committed
    /\ UNCHANGED <<autoCommit, committed, nextId, lostReported, op, outcome, sent, pre>>

\* The call has returned to its caller (DB runs one call at a time): the
\* caller has dealt with its result and the instance awaits the next call.
CallReturns ==
    /\ op # NoCall
    /\ op' = NoCall
    /\ outcome' = NoOutcome
    /\ sent' = <<>>
    /\ pre' = NoPre
    /\ lostReported' = IF lostReported = "no" THEN "no" ELSE "before"
    /\ UNCHANGED <<connValid, autoCommit, committed, view, nextId>>

Next ==
    \/ InsertContact
    \/ UpdateContact
    \/ DeleteContact
    \/ DeleteAllContacts
    \/ ImportContacts
    \/ OnImportCsv
    \/ GetContactById
    \/ GetAllContacts
    \/ SearchContacts
    \/ GetContactsSorted
    \/ GetContactCount
    \/ TestConnection
    \/ InitializeSchema
    \/ LoseConnection
    \/ CallReturns

Spec == Init /\ [][Next]_vars

----------------------------------------------------------------------------
(* DB::is_valid_email on its own: a caller holds a string and has it checked, *)
(* as ContactDialog::validate_input and insert_contact do.                    *)

\* The characters of the strings: a letter, a digit, the two separators and
\* a character of the local part only.
EmailChars == {"a", "7", "@", ".", "%"}

EmailInputs == UNION {[1..n -> EmailChars] : n \in 0..MaxEmailLen}

\* The caller holds the string email; nothing has been checked yet.
InitEmail ==
    /\ connValid = TRUE
    /\ autoCommit = TRUE
    /\ committed = {}
    /\ view = {}
    /\ nextId = 1
    /\ lostReported = "no"
    /\ \E email \in EmailInputs : op = [name |-> "input", args |-> <<email>>, env |-> NoFault]
    /\ outcome = NoOutcome
    /\ sent = <<>>
    /\ pre = NoPre

\* is_valid_email(email), and the test insert_contact, update_contact and
\* validate_input make of it: !email.empty() && !is_valid_email(email).
IsValidEmail ==
    /\ op.name = "input"
    /\ op' = [op EXCEPT !.name = "is_valid_email"]
    /\ outcome' = Returned([valid |-> is_valid_email(op.args[1]),
                            rejected |-> EmailRejected(op.args[1])])
    /\ UNCHANGED <<connValid, autoCommit, committed, view, nextId, lostReported, sent, pre>>

NextEmail == IsValidEmail

SpecEmail == InitEmail /\ [][NextEmail]_vars

----------------------------------------------------------------------------
(* Names and emails with white space: insert_contact and update_contact as  *)
(* ContactDialog::on_ok_clicked calls them, and as any other caller of the  *)
(* public interface of DB does.                                             *)

\* The longest text of a name entry.
MaxNameLen == 2

\* The characters ContactDialog::trim strips: " \t\n\r".
WhiteSpace == {" ", "\t", "\n", "\r"}

\* std::string ContactDialog::trim(const std::string& str)
trim(str) ==
    IF str = EmptyStr THEN str
    ELSE LET kept == {i \in 1..Len(str) : str[i] \notin WhiteSpace}
             first == CHOOSE i \in kept : \A j \in kept : i <= j
             last == CHOOSE i \in kept : \A j \in kept : j <= i
         IN  IF kept = {} THEN EmptyStr ELSE SubSeq(str, first, last)

\* bool ContactDialog::validate_input(): the message it shows, none when it
\* returns true.
validate_input(first, last, email) ==
    IF trim(first) = EmptyStr /\ trim(last) = EmptyStr
    THEN <<"Please enter at least a first name or last name">>
    ELSE IF trim(email) # EmptyStr /\ ~is_valid_email(trim(email))
    THEN <<"Please enter a valid email address">>
    ELSE <<>>

\* What the dialog shows when on_ok_clicked is over: the text of its
\* validation label, and whether it has hidden itself.
Dialog(label, hidden) == [label |-> label, hidden |-> hidden]

\* void ContactDialog::on_ok_clicked(), the entries holding the four texts.
\* m_on_saved, the refresh of the window, only reads the store.
on_ok_clicked(s, editing, id, first, last, email, mobile, fault, counts) ==
    IF validate_input(first, last, email) # <<>>
    THEN Result(s, Returned(Dialog(validate_input(first, last, email), FALSE)), <<>>)
    ELSE LET r == IF editing
                  THEN update_contact(s, id, trim(first), trim(last), trim(email),
                                      trim(mobile), fault, counts)
                  ELSE insert_contact(s, trim(first), trim(last), trim(email),
                                      trim(mobile), fault)
         IN  IF r.outcome.kind = "DBException"
             THEN Result(r.s, Returned(Dialog(r.outcome.what, FALSE)), r.sent)
             ELSE Result(r.s, Returned(Dialog(<<>>, TRUE)), r.sent)

\* The texts of a name: white space and a letter, up to MaxNameLen characters.
NameTexts == UNION {[1..n -> WhiteSpace \cup {"A"}] : n \in 0..MaxNameLen}

\* The texts of an email: none, and an address after a space.
EmailTexts == {EmptyStr, <<" ">> \o MailOk}

\* The contact with id 1 is stored; a caller holds the texts of a contact.
InitNames ==
    /\ connValid = TRUE
    /\ autoCommit = TRUE
    /\ committed = {Contact(1, <<"A">>, EmptyStr, EmptyStr, EmptyStr)}
    /\ view = committed
    /\ nextId = 2
    /\ lostReported = "no"
    /\ \E first \in NameTexts, last \in NameTexts, email \in EmailTexts :
           op = [name |-> "input", args |-> <<first, last, email, EmptyStr>>,
                 env |-> NoFault]
    /\ outcome = NoOutcome
    /\ sent = <<>>
    /\ pre = NoPre

\* insert_contact with the texts as they are.
InsertTexts ==
    /\ op.name = "input"
    /\ Finish("insert_contact", op.args, NoFault,
              insert_contact(St, op.args[1], op.args[2], op.args[3], op.args[4], "none"))

\* update_contact of the stored contact with the texts as they are.
UpdateTexts ==
    /\ op.name = "input"
    /\ \E counts \in RowCounts :
           Finish("update_contact", <<1>> \o op.args, Counting(NoFault, counts),
                  update_contact(St, 1, op.args[1], op.args[2], op.args[3], op.args[4],
                                 "none", counts))

\* Save pressed in the dialog, adding a contact or editing the stored one,
\* its entries holding the texts.
OnOkClicked ==
    /\ op.name = "input"
    /\ \E editing \in BOOLEAN, counts \in RowCounts :
           Finish("on_ok_clicked", <<editing, 1>> \o op.args, Counting(NoFault, counts),
                  on_ok_clicked(St, editing, 1, op.args[1], op.args[2], op.args[3],
                                op.args[4], "none", counts))

NextNames ==
    \/ InsertTexts
    \/ UpdateTexts
    \/ OnOkClicked

SpecNames == InitNames /\ [][NextNames]_vars

----------------------------------------------------------------------------
(* Properties of the calls.  They are stated on the state right after a     *)
(* call: op is the call, pre the state it was invoked in, outcome and sent  *)
(* what it did.                                                             *)

IdsOf(rows) == {c.id : c \in rows}

ImportCalled == op.name = "import_contacts"

\* The rows the batch of the import becomes: the i-th record gets the i-th
\* id from the counter.
BatchRows(contacts, firstId) ==
    {Contact(firstId + i - 1, contacts[i].first_name, contacts[i].last_name,
             contacts[i].email, contacts[i].mobile) : i \in 1..Len(contacts)}

\* The driver call that threw was the executeUpdate of one of the records.
InsertFailed == ImportCalled /\ op.env.failAt \in 3..(Len(op.args[1]) + 2)

\* The rows this connection sees that it did not see before the call.
NewRows == view \ pre.view

\* C1 (as claimed): import_contacts is all-or-nothing: when an insert of the
\* batch fails the call returns false and the stored rows are those before the
\* call; when it returns true every record of the batch is persisted; never
\* is only a proper non-empty prefix of the batch left in the store.
C1_ImportAllOrNothing ==
    ImportCalled =>
        LET batch == BatchRows(op.args[1], pre.nextId)
        IN  /\ InsertFailed =>
                /\ outcome = Returned(FALSE)
                /\ view = pre.view
                /\ committed = pre.committed
            /\ outcome = Returned(TRUE) => batch \subseteq committed
            /\ ~(NewRows # {} /\ NewRows \subseteq batch /\ NewRows # batch)

\* C2 (as claimed): whenever import_contacts has finished, by returning or by
\* raising, the connection is in auto-commit mode and no transaction is open.
C2_AutoCommitRestored ==
    ImportCalled => autoCommit = TRUE /\ view = committed

\* C3 (as claimed): import_contacts reports every failure by returning false
\* and never raises.
C3_ImportNeverRaises ==
    ImportCalled => outcome.kind = "returned"

RepositoryOps ==
    {"insert_contact", "update_contact", "delete_contact", "get_contact_by_id",
     "get_all_contacts", "search_contacts", "get_contacts_sorted",
     "get_contact_count", "delete_all_contacts", "import_contacts"}

Unchanged ==
    /\ view = pre.view
    /\ committed = pre.committed
    /\ nextId = pre.nextId
    /\ autoCommit = pre.autoCommit
    /\ connValid = pre.connValid

\* C4 (as claimed): an operation invoked on a connection that is not live
\* fails with the connection-lost error, whatever its arguments, and sends no
\* statement.
C4_LivenessFirst ==
    (op.name \in RepositoryOps /\ ~pre.connValid) =>
        outcome = DBException(MsgLost) /\ sent = <<>>

SingleWrite == op.name \in {"insert_contact", "update_contact"}

\* The arguments first, last, email of the insert_contact or update_contact call.
ArgFirst == IF op.name = "insert_contact" THEN op.args[1] ELSE op.args[2]

ArgLast == IF op.name = "insert_contact" THEN op.args[2] ELSE op.args[3]

ArgEmail == IF op.name = "insert_contact" THEN op.args[3] ELSE op.args[4]

BothNamesEmpty == ArgFirst = <<>> /\ ArgLast = <<>>

MalformedEmail == ArgEmail # <<>> /\ ~is_valid_email(ArgEmail)

\* C4 (amended): an operation invoked on a connection that is not live sends
\* no statement and changes nothing; it fails with the connection-lost error,
\* except insert and update called with both names empty or with a malformed
\* email: they validate first and fail with the validation error.
C4_LivenessFirstAfterValidation ==
    (op.name \in RepositoryOps /\ ~pre.connValid) =>
        /\ sent = <<>>
        /\ Unchanged
        /\ outcome = IF SingleWrite /\ BothNamesEmpty THEN DBException(MsgNames)
                     ELSE IF SingleWrite /\ MalformedEmail THEN DBException(MsgEmail)
                     ELSE DBException(MsgLost)

C4_Witness ==
    /\ op.name = "get_contacts_sorted"
    /\ ~pre.connValid
    /\ outcome = DBException(MsgLost)

\* C5: insert and update with first = "" and last = "" fail with the
\* validation error of the names, for every email, mobile and id and in every
\* state of the store and of the connection; with any other first and last
\* the names are not what the call is rejected for.
C5_NameInvariant ==
    SingleWrite => (BothNamesEmpty <=> outcome = DBException(MsgNames))

C5_Witness ==
    /\ op.name = "update_contact"
    /\ BothNamesEmpty
    /\ ArgEmail = MailOk
    /\ outcome = DBException(MsgNames)

\* C6: insert and update called with both names empty or with a non-empty
\* malformed email are rejected with a validation error before any store
\* call: no statement is sent and the stored rows are those before the call.
C6_ValidationBeforeStore ==
    SingleWrite =>
        /\ (BothNamesEmpty \/ MalformedEmail) =>
                outcome \in {DBException(MsgNames), DBException(MsgEmail)}
        /\ outcome \in {DBException(MsgNames), DBException(MsgEmail)} =>
                sent = <<>> /\ Unchanged

C6_Witness ==
    /\ op.name = "insert_contact"
    /\ ~BothNamesEmpty
    /\ outcome = DBException(MsgEmail)
    /\ pre.connValid
    /\ pre.view # {}

\* C7 (as claimed): every stored contact has a non-empty first or last name,
\* and an email that is empty or of the email shape.
C7_StoredContactsValid ==
    \A c \in view \cup committed :
        /\ c.first_name # <<>> \/ c.last_name # <<>>
        /\ c.email = <<>> \/ is_valid_email(c.email)

\* The update_contact or delete_contact call named an id no stored row has,
\* with arguments that pass validation, and the store ran its statement.
AbsentIdCall ==
    /\ op.name \in {"update_contact", "delete_contact"}
    /\ op.args[1] \notin IdsOf(pre.view)
    /\ op.name = "update_contact" => ~BothNamesEmpty /\ ~MalformedEmail
    /\ pre.connValid
    /\ op.env.fault = "none"

\* C8: update (with valid fields) and delete of an id that no stored contact
\* has fail with the not-found error and leave the stored rows, hence the row
\* count, unchanged.
C8_AbsentIdNotFound ==
    AbsentIdCall =>
        /\ outcome = DBException(MsgNotFound(op.args[1]))
        /\ view = pre.view
        /\ committed = pre.committed

C8_Witness ==
    /\ op.name = "delete_contact"
    /\ AbsentIdCall
    /\ pre.view # {}
    /\ outcome = DBException(MsgNotFound(op.args[1]))

\* How a caller reads the error of update_contact and delete_contact from
\* the exception it catches.
\* update_contact ran its statement on a stored contact with the values the
\* contact has, on a connection that counts the rows an UPDATE changes.
UnchangedUpdateCall ==
    /\ op.name = "update_contact"
    /\ Contact(op.args[1], op.args[2], op.args[3], op.args[4], op.args[5]) \in pre.view
    /\ ~BothNamesEmpty /\ ~MalformedEmail
    /\ pre.connValid
    /\ op.env.fault = "none"
    /\ op.env.counts = "changed"

ErrorClass(o) ==
    CASE o.kind = "returned" -> "none"
      [] o.what = MsgLost -> "connection lost"
      [] o.what \in {MsgNames, MsgEmail} -> "validation"
      [] o.what[1] = "Contact not found with ID: " -> "not found"
      [] o.what[1] \in {"Update error: ", "Delete error: "} -> "write failure"
      [] OTHER -> "other"

\* C9: the caller can tell the not-found outcome of update and delete from a
\* store write failure and from a lost connection: the call reports not-found
\* exactly when the store ran the statement and counted no row for it, a write
\* failure exactly when the store faulted, connection-lost exactly when the
\* connection was found not live.
C9_NotFoundDistinct ==
    (op.name \in {"update_contact", "delete_contact"}
        /\ ~(op.name = "update_contact" /\ (BothNamesEmpty \/ MalformedEmail))) =>
        /\ ErrorClass(outcome) = "not found" <=> (AbsentIdCall \/ UnchangedUpdateCall)
        /\ ErrorClass(outcome) = "write failure" <=> op.env.fault # "none"
        /\ ErrorClass(outcome) = "connection lost" <=> ~pre.connValid

C9_Witness ==
    /\ op.name = "update_contact"
    /\ AbsentIdCall
    /\ pre.view # {}
    /\ ErrorClass(outcome) = "not found"

\* The ORDER BY column of the query get_contacts_sorted sent.
SentColumn == sent[1].sql[3]

\* C10: the column get_contacts_sorted puts in its query is always one of id,
\* first_name, last_name, email, mobile: the requested one when it is one of
\* them, last_name for every other string; resolving it never raises.
C10_AllowlistTotal ==
    (op.name = "get_contacts_sorted" /\ pre.connValid) =>
        /\ outcome.kind = "returned"
        /\ Len(sent) = 1
        /\ SentColumn \in {"id", "first_name", "last_name", "email", "mobile"}
        /\ op.args[1] \in {"id", "first_name", "last_name", "email", "mobile"}
                => SentColumn = op.args[1]
        /\ op.args[1] \notin {"id", "first_name", "last_name", "email", "mobile"}
                => SentColumn = "last_name"

C10_Witness ==
    /\ op.name = "get_contacts_sorted"
    /\ op.args[1] = "email; DROP TABLE x"
    /\ pre.view # {}
    /\ outcome.kind = "returned"
    /\ SentColumn = "last_name"

\* The statement texts of DB: the literals of the code, and the ten texts
\* get_contacts_sorted can build from an allowlisted column and a direction.
StatementTexts ==
    {<<"INSERT INTO contacts (first_name,last_name,email,mobile) VALUES (?,?,?,?)">>,
     <<"UPDATE contacts SET first_name=?, last_name=?, email=?, mobile=? WHERE id=?">>,
     <<"DELETE FROM contacts WHERE id=?">>,
     <<"DELETE FROM contacts">>,
     <<"SELECT id, first_name, last_name, email, mobile FROM contacts WHERE id=?">>,
     <<"SELECT id, first_name, last_name, email, mobile FROM contacts ORDER BY last_name, first_name">>,
     <<"SELECT id, first_name, last_name, email, mobile FROM contacts WHERE first_name LIKE ? OR last_name LIKE ? OR email LIKE ? OR mobile LIKE ? ORDER BY last_name, first_name">>,
     <<"SELECT COUNT(*) as count FROM contacts">>,
     <<"SELECT 1">>,
     <<"CREATE TABLE IF NOT EXISTS contacts (id INT AUTO_INCREMENT PRIMARY KEY, first_name VARCHAR(100), last_name VARCHAR(100), email VARCHAR(255), mobile VARCHAR(50), created_at TIMESTAMP DEFAULT CURRENT_TIMESTAMP, updated_at TIMESTAMP DEFAULT CURRENT_TIMESTAMP ON UPDATE CURRENT_TIMESTAMP, INDEX idx_name (first_name, last_name), INDEX idx_email (email))">>}
    \cup
    {<<"SELECT id, first_name, last_name, email, mobile FROM contacts", " ORDER BY ",
       column, order>> :
        column \in {"id", "first_name", "last_name", "email", "mobile"},
        order \in {"ASC", "DESC"}}

\* The driver calls that carry a statement text.
CarriesText(call) ==
    call.api \in {"prepareStatement", "executeQuery", "executeUpdate", "execute"}

\* The values of the caller that the call hands to the store.
CallerValues ==
    CASE op.name = "insert_contact" -> op.args
      [] op.name = "update_contact" -> Tail(op.args) \o <<Head(op.args)>>
      [] op.name \in {"delete_contact", "get_contact_by_id"} -> op.args
      [] op.name = "search_contacts" /\ op.args[1] # <<>> ->
            [k \in 1..4 |-> <<"%">> \o op.args[1] \o <<"%">>]
      [] OTHER -> <<>>

\* C11: whatever the operation and its arguments, every statement text sent
\* to the store is one of a fixed finite set (for get_contacts_sorted: the
\* fixed SELECT, an allowlisted column and ASC or DESC); the names, emails,
\* mobiles, ids and queries of the caller travel as bound parameters only.
C11_StatementTextsFixed ==
    /\ \A i \in DOMAIN sent : CarriesText(sent[i]) => sent[i].sql \in StatementTexts
    /\ (op.name \in RepositoryOps \ {"import_contacts"} /\ sent # <<>>) =>
            Len(sent) = 1 /\ sent[1].params = CallerValues

C11_Witness ==
    /\ op.name = "search_contacts"
    /\ op.args[1] = <<"%">>
    /\ Len(sent) = 1
    /\ sent[1].sql \in StatementTexts
    /\ sent[1].params[1] = <<"%", "%", "%">>

\* C12 (as claimed): test_connection returns a boolean in every state of the
\* connection, true when the round trip succeeds and false when it fails; it
\* never raises.
C12_ProbeNeverRaises ==
    op.name = "test_connection" =>
        outcome = Returned(pre.connValid /\ op.env.fault = "none")

\* The store ran the lookup of get_contact_by_id and faulted.
LookupFaulted ==
    op.name = "get_contact_by_id" /\ pre.connValid /\ op.env.fault # "none"

\* C13 (as claimed): get_contact_by_id reports `absent' when no contact has
\* the id, and something other than `absent' when the store faults while it
\* runs the lookup.
C13_AbsentIsNotFault ==
    op.name = "get_contact_by_id" =>
        /\ (pre.connValid /\ op.env.fault = "none"
                /\ op.args[1] \notin IdsOf(pre.view)) => outcome = Returned("nullopt")
        /\ LookupFaulted => outcome # Returned("nullopt")

InsertSucceeded == op.name = "insert_contact" /\ outcome.kind = "returned"

\* The id the store gave the row of the insert_contact call.
AssignedId == pre.nextId

\* What get_contact_by_id(id) yields when called now and the lookup runs.
LookupNow(id) == get_contact_by_id(St, id, "none").outcome

\* The contact the arguments of the insert_contact call describe.
Inserted(id) == Contact(id, op.args[1], op.args[2], op.args[3], op.args[4])

\* C14 (as claimed): a successful insert returns the store-assigned id of the
\* new row, and get_contact_by_id of it right afterwards yields the contact
\* made of that id and the four arguments.
C14_RoundTripReturnedId ==
    InsertSucceeded =>
        /\ outcome # Returned("void")
        /\ LookupNow(AssignedId) = Returned(Inserted(AssignedId))

\* C14 (amended): a successful insert returns no value; the new row has a
\* store-assigned id no other row has, and get_contact_by_id of that id right
\* afterwards yields the contact made of that id and the four arguments.
C14_RoundTrip ==
    InsertSucceeded =>
        /\ outcome = Returned("void")
        /\ AssignedId \notin IdsOf(pre.view)
        /\ view = pre.view \cup {Inserted(AssignedId)}
        /\ LookupNow(AssignedId) = Returned(Inserted(AssignedId))

C14_Witness ==
    /\ InsertSucceeded
    /\ pre.view # {}
    /\ op.args[3] = MailOk
    /\ LookupNow(AssignedId) = Returned(Inserted(AssignedId))

\* The result sets the store may hand to a read called in state s under
\* fault: one of `orders' when the query runs, none otherwise.
ReadRows(s, fault, orders) == IF s.connValid /\ fault = "none" THEN orders ELSE {<<>>}

\* C15: search_contacts("") does what get_all_contacts() does in the same
\* state of the store and of the connection: it returns one of the sequences
\* get_all_contacts can return there, in that order, or fails the same way,
\* and sends the same statement.
C15_EmptyQueryIsGetAll ==
    (op.name = "search_contacts" /\ op.args[1] = EmptyStr) =>
        \E rows \in ReadRows(pre, op.env.fault, AllOrders(pre)) :
            LET all == get_all_contacts(pre, op.env.fault, rows)
            IN  /\ outcome = all.outcome
                /\ sent = all.sent
                /\ St = all.s

C15_Witness ==
    /\ op.name = "search_contacts"
    /\ op.args[1] = EmptyStr
    /\ outcome.kind = "returned"
    /\ Len(outcome.value) = 2
    /\ outcome.value \in AllOrders(pre)

\* q occurs in str as a run of consecutive characters, letters compared
\* without regard to case.
Occurs(q, str) ==
    \E k \in 0..(Len(str) - Len(q)) : \A i \in 1..Len(q) : Fold(str[k + i]) = Fold(q[i])

\* The contacts in which q occurs in a name, the email or the mobile.
Containing(rows, q) ==
    {c \in rows : \/ Occurs(q, c.first_name)
                  \/ Occurs(q, c.last_name)
                  \/ Occurs(q, c.email)
                  \/ Occurs(q, c.mobile)}

\* seq lists the contacts of rows, each once.
ListsOnce(seq, rows) ==
    /\ Len(seq) = Cardinality(rows)
    /\ {seq[i] : i \in DOMAIN seq} = rows

\* seq is in ascending order of last_name, then first_name.
ByNames(seq) ==
    \A i, j \in DOMAIN seq :
        i < j => \/ StrCmp(seq[i].last_name, seq[j].last_name) < 0
                 \/ /\ StrCmp(seq[i].last_name, seq[j].last_name) = 0
                    /\ StrCmp(seq[i].first_name, seq[j].first_name) <= 0

\* The read ran its query on a live connection and the store answered.
ReadRan(name) == op.name = name /\ pre.connValid /\ op.env.fault = "none"

\* C16 (as claimed): for a non-empty query q, with or without the characters
\* % and _, search_contacts(q) returns exactly the stored contacts in which q
\* occurs literally, without regard to case, in first_name, last_name, email
\* or mobile, in the order of get_all_contacts.
C16_SearchLiteralSubstring ==
    (ReadRan("search_contacts") /\ op.args[1] # EmptyStr) =>
        /\ outcome.kind = "returned"
        /\ ListsOnce(outcome.value, Containing(pre.view, op.args[1]))
        /\ ByNames(outcome.value)

Reverse(seq) == [i \in 1..Len(seq) |-> seq[Len(seq) + 1 - i]]

\* No two of the rows have the same string as last_name.
DistinctLastNames(rows) ==
    \A a, b \in rows : a # b => a.last_name # b.last_name

\* No two of the rows tie on last_name in the store's comparison, which does
\* not regard case.
NoTiesOnLastName(rows) ==
    \A a, b \in rows : a # b => StrCmp(a.last_name, b.last_name) # 0

\* get_contacts_sorted("last_name", ascending) ran its query.
SortedByLastNameRan(ascending) ==
    ReadRan("get_contacts_sorted") /\ op.args = <<"last_name", ascending>>

\* The sequences get_contacts_sorted("last_name", ascending) can return when
\* called in the state the last call was made in.
SortedNow(ascending) == SortedOrders(pre, SortedQuery("last_name", ascending))

\* The sequence the call returned, reversed, is what the call in the other
\* direction returns in the same state, and both list every contact once.
ReverseOfOther(ascending) ==
    /\ outcome.kind = "returned"
    /\ ListsOnce(outcome.value, pre.view)
    /\ \A other \in SortedNow(~ascending) :
            /\ ListsOnce(other, pre.view)
            /\ IF ascending THEN Reverse(outcome.value) = other
               ELSE Reverse(other) = outcome.value

\* C18 (as claimed): when no two contacts have the same last_name, the result
\* of get_contacts_sorted("last_name", true), reversed, is the result of
\* get_contacts_sorted("last_name", false); both hold every contact once.
C18_AscReversedIsDesc ==
    \A ascending \in BOOLEAN :
        (SortedByLastNameRan(ascending) /\ DistinctLastNames(pre.view)) =>
            ReverseOfOther(ascending)

\* C18 (amended): the same, when no two contacts have last names that the
\* store's comparison takes for equal (names that differ only in case tie).
C18_AscReversedIsDescNoTies ==
    \A ascending \in BOOLEAN :
        (SortedByLastNameRan(ascending) /\ NoTiesOnLastName(pre.view)) =>
            ReverseOfOther(ascending)

C18_Witness ==
    /\ SortedByLastNameRan(TRUE)
    /\ NoTiesOnLastName(pre.view)
    /\ Len(outcome.value) = 2
    /\ Reverse(outcome.value) \in SortedNow(FALSE)

\* What get_contact_count() returns when called in state s and the query runs.
CountIn(s) == get_contact_count(s, "none").outcome.value

DeleteSucceeded == op.name = "delete_contact" /\ outcome.kind = "returned"

\* delete_contact of the same id, called now.
DeleteAgain == delete_contact(St, op.args[1], "none")

\* C19: a successful insert raises the count by exactly 1 and a search on the
\* last name of the new record finds it; a successful delete lowers the count
\* by exactly 1, and a second delete of the same id fails with the not-found
\* error and leaves the count as it is; whenever get_contact_count runs it
\* returns the number of stored rows.
C19_CountTracksWrites ==
    /\ InsertSucceeded =>
            /\ CountIn(St) = CountIn(pre) + 1
            /\ \A found \in SearchOrders(St, op.args[2]) :
                    \E i \in DOMAIN found : found[i] = Inserted(AssignedId)
    /\ DeleteSucceeded =>
            /\ CountIn(St) = CountIn(pre) - 1
            /\ DeleteAgain.outcome = DBException(MsgNotFound(op.args[1]))
            /\ CountIn(DeleteAgain.s) = CountIn(St)
    /\ ReadRan("get_contact_count") => outcome = Returned(Cardinality(pre.view))

C19_Witness ==
    /\ DeleteSucceeded
    /\ Cardinality(pre.view) = 2
    /\ CountIn(St) = 1
    /\ DeleteAgain.outcome = DBException(MsgNotFound(op.args[1]))

\* The email shape: a non-empty local part of letters, digits and ._%+-, an
\* @, a non-empty domain of letters, digits, dots and hyphens, a dot, and a
\* last label of two or more letters; nothing before and nothing after.
EmailShape(s) ==
    \E at \in 1..Len(s) :
        LET local == SubSeq(s, 1, at - 1)
            rest == SubSeq(s, at + 1, Len(s))
        IN  /\ s[at] = "@"
            /\ local # <<>>
            /\ \A k \in DOMAIN local :
                    local[k] \in {"a", "b", "c", "o", "A", "B", "7", ".", "_", "%", "+", "-"}
            /\ \E dot \in 1..Len(rest) :
                    LET domain == SubSeq(rest, 1, dot - 1)
                        label == SubSeq(rest, dot + 1, Len(rest))
                    IN  /\ rest[dot] = "."
                        /\ domain # <<>>
                        /\ \A k \in DOMAIN domain :
                                domain[k] \in {"a", "b", "c", "o", "A", "B", "7", ".", "-"}
                        /\ Len(label) >= 2
                        /\ \A k \in DOMAIN label :
                                label[k] \in {"a", "b", "c", "o", "A", "B"}

EmailChecked == op.name = "is_valid_email"

\* C20 (as claimed): is_valid_email(s) is true iff s is empty or the whole of
\* s has the email shape.
C20_EmailValidOrEmpty ==
    EmailChecked =>
        (outcome.value.valid <=> (op.args[1] = <<>> \/ EmailShape(op.args[1])))

\* C20 (amended): is_valid_email(s) is true iff the whole of s has the email
\* shape, so it is false of the empty string; the writes and the dialog reject
\* an email iff it is neither empty nor of the email shape.
C20_EmailShape ==
    EmailChecked =>
        /\ outcome.value.valid <=> EmailShape(op.args[1])
        /\ outcome.value.rejected <=> ~(op.args[1] = <<>> \/ EmailShape(op.args[1]))

\* A string with a well-formed address inside it is rejected.
C20_Witness ==
    /\ EmailChecked
    /\ Len(op.args[1]) = 7
    /\ EmailShape(SubSeq(op.args[1], 2, 7))
    /\ ~outcome.value.valid
    /\ outcome.value.rejected

----------------------------------------------------------------------------
\* Both names are empty once trimmed.
BothNamesBlank(first, last) == trim(first) = EmptyStr /\ trim(last) = EmptyStr

\* insert_contact or update_contact was called with names of white space only.
BlankNamesWrite ==
    /\ SingleWrite
    /\ BothNamesBlank(ArgFirst, ArgLast)

\* C21: insert and update whose first and last name both consist of white
\* space only (space, tab, CR, LF), or are empty, fail with the validation
\* error for the names, as with two empty names; no statement is sent and
\* nothing is written.
C21_NameRuleAfterTrim ==
    BlankNamesWrite =>
        /\ outcome = DBException(MsgNames)
        /\ sent = <<>>
        /\ Unchanged

----------------------------------------------------------------------------
SchemaCalled == op.name = "initialize_schema"

\* C23: initialize_schema is idempotent and destroys nothing.  Whatever the
\* rows of the store, a call leaves every row as it was and no id is handed
\* out again; when the driver does not fault the call succeeds, the table
\* exists afterwards whether or not it did before, and a second call right
\* after it succeeds too and leaves the state of the first; a call that fails
\* leaves the durable rows and the table as they were.  (The rows are those
\* the connection reads; outside auto-commit mode the statement makes the
\* writes of the open transaction durable.)
C23_EnsureSchemaIdempotent ==
    SchemaCalled =>
        /\ op.env.fault = "none" <=> outcome = Returned("void")
        /\ outcome = Returned("void") =>
              /\ view = pre.view
              /\ committed = IF pre.autoCommit THEN pre.committed ELSE pre.view
              /\ nextId = IF TableExists(pre) THEN pre.nextId ELSE 1
              /\ initialize_schema(St, "none").s = St
              /\ initialize_schema(St, "none").outcome = Returned("void")
        /\ outcome # Returned("void") =>
              /\ committed = pre.committed
              /\ nextId = pre.nextId
              /\ connValid => view = pre.view

\* initialize_schema succeeded on a table that holds contacts.
C23_Witness ==
    /\ SchemaCalled
    /\ outcome = Returned("void")
    /\ TableExists(pre)
    /\ pre.view # {}

----------------------------------------------------------------------------
\* update_contact of a stored contact, with valid values, ran its statement
\* on a live connection without a fault.
StoredIdUpdate ==
    /\ op.name = "update_contact"
    /\ op.args[1] \in IdsOf(pre.view)
    /\ ~BothNamesEmpty /\ ~MalformedEmail
    /\ pre.connValid
    /\ op.env.fault = "none"

\* C25: update_contact of a stored contact with valid values, the values the
\* contact already has included, succeeds on a live connection: it does not
\* fail with the not-found error, and the contact has the values afterwards.
C25_NotFoundOnlyForAbsentIds ==
    StoredIdUpdate =>
        /\ outcome = Returned("void")
        /\ Contact(op.args[1], op.args[2], op.args[3], op.args[4], op.args[5]) \in view

----------------------------------------------------------------------------
\* The calls on the DB instance.
InstanceOps == RepositoryOps \cup {"test_connection", "initialize_schema"}

\* C22 (as claimed): once a call on the instance has failed with the
\* connection-lost error, every later call on it fails with that error.
C22_LostIsTerminal ==
    (lostReported # "no" /\ op.name \in InstanceOps) => outcome = DBException(MsgLost)

\* The error of a call on a connection that is not valid: the validation
\* error when insert_contact or update_contact get invalid arguments, the
\* error of the driver call when initialize_schema makes it, connection-lost
\* otherwise.
ErrorWhenLost ==
    CASE SingleWrite /\ BothNamesEmpty -> DBException(MsgNames)
      [] SingleWrite /\ ~BothNamesEmpty /\ MalformedEmail -> DBException(MsgEmail)
      [] SchemaCalled ->
            DBException(<<"Schema initialization error: ", DriverText("lost")>>)
      [] OTHER -> DBException(MsgLost)

\* C22 (amended): once a call on the instance has failed with the
\* connection-lost error the connection is never valid again, and every
\* later call fails and leaves the store as it is: with the connection-lost
\* error and without a driver call, except that insert_contact and
\* update_contact with invalid arguments fail with the validation error, and
\* initialize_schema with the error of its driver call.
C22_LostIsTerminalForStore ==
    lostReported # "no" =>
        /\ ~connValid
        /\ op.name \in InstanceOps =>
              /\ ~pre.connValid
              /\ outcome = ErrorWhenLost
              /\ sent # <<>> => SchemaCalled
              /\ Unchanged

\* After the connection-lost error was reported, a read was called.
C22_Witness ==
    /\ lostReported = "before"
    /\ op.name = "get_all_contacts"
    /\ outcome = DBException(MsgLost)

----------------------------------------------------------------------------
\* No two of the rows have the same id.
UniqueIds(rows) == \A a \in rows, b \in rows : a.id = b.id => a = b

UpdateSucceeded == op.name = "update_contact" /\ outcome = Returned("void")

\* C24: ids are unique and immutable.  No two stored contacts have the same
\* id, among the rows the connection reads and among the durable ones, and
\* every id was handed out by the counter; a successful
\* update_contact(id, f, l, e, m) leaves the set of ids and every row with
\* another id as they were, and the row with that id has its id and the four
\* values.
C24_IdsUniqueImmutable ==
    /\ UniqueIds(view)
    /\ UniqueIds(committed)
    /\ \A c \in view \cup committed : 1 <= c.id /\ c.id < nextId
    /\ UpdateSucceeded =>
          /\ IdsOf(view) = IdsOf(pre.view)
          /\ \A c \in pre.view : c.id # op.args[1] => c \in view
          /\ RowsWithId(view, op.args[1]) =
                {Contact(op.args[1], op.args[2], op.args[3], op.args[4], op.args[5])}
          /\ nextId = pre.nextId

\* update_contact changed one of two stored contacts.
C24_Witness ==
    /\ UpdateSucceeded
    /\ Cardinality(pre.view) = 2
    /\ view # pre.view

----------------------------------------------------------------------------
\* The reads that return a list, and the count.
ListReads == {"get_all_contacts", "search_contacts", "get_contacts_sorted"}

\* The store faulted while it ran the query of a read.
QueryFaulted ==
    /\ op.name \in ListReads \cup {"get_contact_count"}
    /\ pre.connValid
    /\ op.env.fault # "none"

\* C26: when the store faults on the query of get_all_contacts,
\* search_contacts or get_contacts_sorted the call returns the empty list,
\* and get_contact_count returns 0; none throws, and the store is as before:
\* the call made its one query, the durable rows, the counter and the
\* auto-commit mode are unchanged, and so are the rows the connection reads
\* unless the fault is the loss of the connection, which ends its transaction.
C26_ReadsSwallowFaults ==
    QueryFaulted =>
        /\ outcome = Returned(IF op.name \in ListReads THEN <<>> ELSE 0)
        /\ Len(sent) = 1 /\ sent[1].api = "executeQuery"
        /\ committed = pre.committed
        /\ nextId = pre.nextId
        /\ autoCommit = pre.autoCommit
        /\ view = IF op.env.fault = "lost" THEN pre.committed ELSE pre.view
        /\ connValid <=> op.env.fault # "lost"

\* The query of a list read faulted with contacts stored.
C26_Witness ==
    /\ QueryFaulted
    /\ op.name = "get_contacts_sorted"
    /\ pre.view # {}
    /\ outcome = Returned(<<>>)

====
